---- MODULE Spec2Model ----
(***************************************************************************)
(* Model of src/src/main.cpp: processor identification (CPUID 0 and 1),    *)
(* TSC frequency discovery (GetTscHz: CPUID 0x15, crystal table, MSR 0xCE  *)
(* fallback through ReadMsr) and the sampling loop of main.                *)
(*                                                                         *)
(* TLC integers are 32-bit, so the C values that are 32 or 64 bits wide    *)
(* (unsigned int eax/ebx/ecx, uint64_t tsc_hz and value) are kept as       *)
(* little-endian byte sequences of their exact width (4 or 8 bytes), and   *)
(* the arithmetic of line 180 and line 199 is done on those bytes.         *)
(***************************************************************************)
EXTENDS Integers, Sequences, FiniteSets

VARIABLES
    pc,          \* position of the single thread in main / its callees
    info,        \* main's ProcessorInfo (line 256)
    maxLevel,    \* GetProcessorInfo: const unsigned int maxLevel (line 227)
    model,       \* GetProcessorInfo: uint8_t model (line 237)
    family,      \* GetProcessorInfo: uint8_t family (line 238)
    sig,         \* GetProcessorModelFamily: eax returned by CPUID(1)
    cpuid15,     \* GetTscHz: eax, ebx, ecx as returned by CPUID(0x15)
    crystal,     \* GetTscHz: ecx after the table lookup (lines 160-176)
    tsc_hz,      \* GetTscHz: uint64_t tsc_hz
    tier1_hz,    \* history: <<tsc_hz>> as tested at line 186, <<>> before
    mult,        \* GetTscHz: uint8_t mult
    value,       \* GetTscHz: uint64_t value, written by pread
    fd,          \* ReadMsr: descriptor returned by open
    result,      \* ReadMsr: return value of pread
    ret,         \* ReadMsr: bool ret
    opens,       \* number of open("/dev/cpu/0/msr") calls issued so far
    closes,      \* number of close(fd) calls issued so far
    openHandles, \* MSR descriptors currently open in the process
    t1,          \* main loop: first counter read
    t2,          \* main loop: second counter read
    duration     \* main loop: const double duration

vars == <<pc, info, maxLevel, model, family, sig, cpuid15, crystal, tsc_hz,
          tier1_hz, mult, value, fd, result, ret, opens, closes, openHandles,
          t1, t2, duration>>

(***************************************************************************)
(* Program constants.                                                      *)
(***************************************************************************)
INTEL_FAM6_NEHALEM == 30            \* 0x1E
INTEL_FAM6_NEHALEM_G == 31          \* 0x1F
INTEL_FAM6_NEHALEM_EP == 26         \* 0x1A
INTEL_FAM6_NEHALEM_EX == 46         \* 0x2E
INTEL_FAM6_WESTMERE == 37           \* 0x25
INTEL_FAM6_WESTMERE_EP == 44        \* 0x2C
INTEL_FAM6_WESTMERE_EX == 47        \* 0x2F
INTEL_FAM6_SKYLAKE_L == 78          \* 0x4E
INTEL_FAM6_SKYLAKE == 94            \* 0x5E
INTEL_FAM6_ATOM_GOLDMONT == 92      \* 0x5C
INTEL_FAM6_ATOM_GOLDMONT_D == 95    \* 0x5F
INTEL_FAM6_ATOM_GOLDMONT_PLUS == 122 \* 0x7A
TscLeaf == 21                        \* 0x15
MsrValueSize == 8                    \* sizeof(*val)
Hz24M == 24000000
Hz25M == 25000000
Hz19M2 == 19200000
Mult133 == 133
Mult100 == 100
Mega == 1000000                      \* 1E6

(***************************************************************************)
(* Bounds of the model.                                                    *)
(***************************************************************************)
MaxTsc == 2      \* counter reads are drawn from 0..MaxTsc

(***************************************************************************)
(* Fixed-width unsigned integers as little-endian byte sequences.          *)
(***************************************************************************)
Pow256 == <<1, 256, 65536, 16777216>>

\* Byte i (1 = least significant) of a natural n < 2^31.
ByteOf(n, i) == IF i <= 4 THEN (n \div Pow256[i]) % 256 ELSE 0

\* An 8-byte word from its bytes, least significant first (a tuple, so that
\* every byte is computed once).
Word64(f) == <<f[1], f[2], f[3], f[4], f[5], f[6], f[7], f[8]>>

\* The unsigned int / uint64_t holding a natural n < 2^31.
U32(n) == <<ByteOf(n, 1), ByteOf(n, 2), ByteOf(n, 3), ByteOf(n, 4)>>
U64(n) == Word64([i \in 1..8 |-> ByteOf(n, i)])
Max32 == <<255, 255, 255, 255>>                       \* 0xFFFFFFFF
Max64 == <<255, 255, 255, 255, 255, 255, 255, 255>>   \* 0xFFFFFFFFFFFFFFFF

\* (uint64_t)x for a 32-bit x: zero extension.
ZeroExtend(a) == Word64([i \in 1..8 |-> IF i <= Len(a) THEN a[i] ELSE 0])

IsZero(a) == \A i \in 1..Len(a) : a[i] = 0

RECURSIVE ColumnSum(_, _, _, _)
ColumnSum(a, b, k, i) ==
    IF i = 0 THEN 0 ELSE a[i] * b[k + 1 - i] + ColumnSum(a, b, k, i - 1)

RECURSIVE MulCarry(_, _, _)
MulCarry(a, b, k) ==
    IF k = 1 THEN 0
    ELSE (ColumnSum(a, b, k - 1, k - 1) + MulCarry(a, b, k - 1)) \div 256

\* a * b on uint64_t operands: the low 64 bits of the product.
Mul64(a, b) ==
    Word64([k \in 1..8 |-> (ColumnSum(a, b, k, k) + MulCarry(a, b, k)) % 256])

RECURSIVE GeqFrom(_, _, _)
GeqFrom(a, b, i) ==
    IF i = 0 THEN TRUE
    ELSE IF a[i] # b[i] THEN a[i] > b[i]
    ELSE GeqFrom(a, b, i - 1)

\* a >= b on uint64_t operands.
Geq64(a, b) == GeqFrom(a, b, 8)

RECURSIVE Borrow(_, _, _)
Borrow(a, b, i) ==
    IF i = 1 THEN 0
    ELSE IF a[i - 1] - b[i - 1] - Borrow(a, b, i - 1) < 0 THEN 1 ELSE 0

\* a - b on uint64_t operands (modulo 2^64).
Sub64(a, b) == Word64([i \in 1..8 |-> (a[i] - b[i] - Borrow(a, b, i) + 256) % 256])

\* (a << 1) | bit on a uint64_t operand.
Shl1Or(a, bit) ==
    Word64([i \in 1..8 |-> (2 * a[i] + (IF i = 1 THEN bit ELSE a[i - 1] \div 128)) % 256])

\* Bit n (0..63) of a uint64_t operand.
BitOf(a, n) == (a[(n \div 8) + 1] \div (2 ^ (n % 8))) % 2

\* Binary long division, one bit of n per step from bit down to 0; qr is
\* <<quotient so far, remainder so far>>.
RECURSIVE DivStep(_, _, _, _)
DivStep(n, d, bit, qr) ==
    IF bit < 0 THEN qr[1]
    ELSE LET r1 == Shl1Or(qr[2], BitOf(n, bit))
         IN  IF Geq64(r1, d)
             THEN DivStep(n, d, bit - 1, <<Shl1Or(qr[1], 1), Sub64(r1, d)>>)
             ELSE DivStep(n, d, bit - 1, <<Shl1Or(qr[1], 0), r1>>)

\* n / d on uint64_t operands, d # 0: the quotient rounded towards zero.
Div64(n, d) == DivStep(n, d, 63, <<U64(0), U64(0)>>)

(***************************************************************************)
(* Inputs: what the hardware and the operating system may answer.          *)
(***************************************************************************)
\* CPUID(0).eax: below and at the leaf tier 1 needs.
MaxLevels == {TscLeaf - 1, TscLeaf}

\* CPUID(1).eax from its fields (stepping 0, reserved bits 0).
Signature(baseModel, baseFamily, extModel, extFamily) ==
    16 * baseModel + 256 * baseFamily + 65536 * extModel + 1048576 * extFamily

BaseModels == {5, 10, 12, 14, 15}
ExtModels == {1, 2, 4, 5, 7}
FamilyFields == {<<5, 0>>, <<6, 0>>, <<6, 241>>, <<15, 1>>, <<15, 241>>}

Cpuid1Values ==
    {Signature(bm, ff[1], em, ff[2]) : bm \in BaseModels, em \in ExtModels,
                                       ff \in FamilyFields}

\* CPUID(0x15): eax (denominator), ebx (numerator), ecx (crystal Hz).
Cpuid15Values ==
    [eax : {U32(0), U32(2), Max32},
     ebx : {U32(0), U32(100), Max32},
     ecx : {U32(0), U32(38400000), Max32}]

\* pread(fd, val, 8, 0xCE): its return value and the bytes the device holds.
PreadOutcomes ==
    {[result |-> MsrValueSize, data |-> d] :
        d \in {U64(0), U64(1), U64(30 * 256), Max64}}
    \cup {[result |-> r, data |-> Max64] : r \in {-1, 0, 4}}

\* What an unsigned division by zero (undefined behaviour) may leave in
\* tsc_hz when it does not trap.
DivByZeroValues == {U64(0), U64(1)}

(***************************************************************************)
(* GetProcessorModelFamily, lines 64-93.                                   *)
(***************************************************************************)
BaseFamily(eax) == (eax \div 256) % 16          \* (eax >> 8) & 0x0f
BaseModel(eax) == (eax \div 16) % 16            \* (eax >> 4) & 0x0f
ExtFamily(eax) == (eax \div 1048576) % 256      \* (eax >> 20) & 0xff
ExtModel(eax) == (eax \div 65536) % 16          \* (eax >> 16) & 0xf

\* family after lines 72 and 75-76; family is a uint8_t.
DecodeFamily(eax) ==
    IF BaseFamily(eax) = 15
    THEN (BaseFamily(eax) + ExtFamily(eax)) % 256
    ELSE BaseFamily(eax)

\* model after lines 73 and 78-79; model is a uint8_t and line 78 tests the
\* family as already adjusted.
DecodeModel(eax) ==
    IF DecodeFamily(eax) >= 6
    THEN (BaseModel(eax) + 16 * ExtModel(eax)) % 256
    ELSE BaseModel(eax)

(***************************************************************************)
(* IsModelWestmere, IsModelNehalem, lines 95-125.                          *)
(***************************************************************************)
IsModelWestmere(m) ==
    m \in {INTEL_FAM6_WESTMERE, INTEL_FAM6_WESTMERE_EP, INTEL_FAM6_WESTMERE_EX}

\* IsModelNehalem without the Auburndale / Havendale code.
IsModelNehalem_ThreeCodes(m) ==
    m \in {INTEL_FAM6_NEHALEM, INTEL_FAM6_NEHALEM_EP, INTEL_FAM6_NEHALEM_EX}

IsModelNehalem(m) ==
    m \in {INTEL_FAM6_NEHALEM, INTEL_FAM6_NEHALEM_G, INTEL_FAM6_NEHALEM_EP,
           INTEL_FAM6_NEHALEM_EX}

(***************************************************************************)
(* GetTscHz, lines 146-204.                                                *)
(***************************************************************************)
\* The switch without its Gemini Lake case.
CrystalTable_NoGoldmontPlus(m) ==
    CASE m \in {INTEL_FAM6_SKYLAKE_L, INTEL_FAM6_SKYLAKE} -> U32(Hz24M)
      [] m = INTEL_FAM6_ATOM_GOLDMONT_D -> U32(Hz25M)
      [] m = INTEL_FAM6_ATOM_GOLDMONT -> U32(Hz19M2)
      [] OTHER -> U32(0)

\* The switch of lines 161-176.
CrystalTable(m) ==
    CASE m \in {INTEL_FAM6_SKYLAKE_L, INTEL_FAM6_SKYLAKE} -> U32(Hz24M)
      [] m = INTEL_FAM6_ATOM_GOLDMONT_D -> U32(Hz25M)
      [] m \in {INTEL_FAM6_ATOM_GOLDMONT, INTEL_FAM6_ATOM_GOLDMONT_PLUS} -> U32(Hz19M2)
      [] OTHER -> U32(0)

\* ecx after lines 160-176.
ResolveCrystal(m, ecx) == IF IsZero(ecx) THEN CrystalTable(m) ELSE ecx

\* The low 32 bits of a uint64_t, zero extended.
Truncate32(a) == <<a[1], a[2], a[3], a[4], 0, 0, 0, 0>>

\* ecx * ebx without the cast: the product in unsigned int.
Tier1Product_NoCast(ecx, ebx) == Truncate32(Mul64(ZeroExtend(ecx), ZeroExtend(ebx)))

\* (uint64_t)ecx * ebx, line 180.
Tier1Product(ecx, ebx) == Mul64(ZeroExtend(ecx), ZeroExtend(ebx))

\* (uint64_t)ecx * ebx / eax, line 180, eax # 0.
Tier1Quotient(ecx, ebx, eax) == Div64(Tier1Product(ecx, ebx), ZeroExtend(eax))

\* Whether line 180 is reached with these registers.
Tier1Divides(m, r) == ~IsZero(r.ebx) /\ ~IsZero(ResolveCrystal(m, r.ecx))

\* Tier 2 entered whatever tier 1 found.
Tier2Needed_Always(hz) == TRUE

\* The test of line 186.
Tier2Needed(hz) == IsZero(hz)

\* mult, lines 188-192.
BusMultiplier(m) ==
    IF IsModelWestmere(m) \/ IsModelNehalem(m) THEN Mult133 ELSE Mult100

\* (value >> 8) & 0xff, line 198.
RatioField(v) == v[2]

\* reg * mult * 1000000 computed in 32 bits.
RatioHz_Int32(reg, m) == Truncate32(Mul64(U64(reg * m), U64(Mega)))

\* reg * mult * 1E6 stored to a uint64_t, line 199: reg * mult is an int of at
\* most 255 * 133, the double product is an integer below 2^53 and so exact,
\* and so is its conversion to uint64_t.
RatioHz(reg, m) == Mul64(U64(reg * m), U64(Mega))

(***************************************************************************)
(* ReadMsr, lines 127-144.                                                 *)
(***************************************************************************)
\* The memory of *val after a pread that returned n and found data.
PreadInto(old, data, n) == Word64([i \in 1..8 |-> IF i <= n THEN data[i] ELSE old[i]])

\* close only on the path of a full read.
AfterPread_CloseOnSuccess(n) == IF n = MsrValueSize THEN "msr_close" ELSE "msr_ret"

\* Where ReadMsr continues after pread, lines 135-140.
AfterPread(n) == "msr_close"

(***************************************************************************)
(* main, lines 253-279.                                                    *)
(***************************************************************************)
\* GetProcessorInfo's return value, line 250.
GetProcessorInfoResult == TRUE

\* static_cast<double>(diff) / info.tscHz, line 276: IEEE division, so a zero
\* frequency gives an infinity, or a NaN when diff is zero too.
FloatDivide(diff, hz) ==
    [kind |-> IF ~IsZero(hz) THEN "finite" ELSE IF diff = 0 THEN "nan" ELSE "inf",
     ticks |-> diff, hz |-> hz]

NoDuration == [kind |-> "none", ticks |-> 0, hz |-> U64(0)]
NoRegisters == [eax |-> U32(0), ebx |-> U32(0), ecx |-> U32(0)]

(***************************************************************************)
(* The state machine.                                                      *)
(***************************************************************************)
Init ==
    /\ pc = "main"
    /\ info = [maxLevel |-> 0, model |-> 0, family |-> 0, tscHz |-> U64(0)]
    /\ maxLevel = 0
    /\ model = 0
    /\ family = 0
    /\ sig = 0
    /\ cpuid15 = NoRegisters
    /\ crystal = U32(0)
    /\ tsc_hz = U64(0)
    /\ tier1_hz = <<>>
    /\ mult = 0
    /\ value = U64(0)
    /\ fd = 0
    /\ result = 0
    /\ ret = FALSE
    /\ opens = 0
    /\ closes = 0
    /\ openHandles = 0
    /\ t1 = 0
    /\ t2 = 0
    /\ duration = NoDuration

tscLocals == <<cpuid15, crystal, tsc_hz, tier1_hz, mult, value>>
msrLocals == <<fd, result, ret>>
handles == <<opens, closes, openHandles>>
loopLocals == <<t1, t2, duration>>

\* main calls GetProcessorInfo, which issues CPUID(0): lines 256-235.
GetProcessorInfo_Cpuid0 ==
    /\ pc = "main"
    /\ \E lvl \in MaxLevels : maxLevel' = lvl
    /\ pc' = "gpmf_cpuid"
    /\ UNCHANGED <<info, model, family, sig, tscLocals, msrLocals, handles, loopLocals>>

\* GetProcessorModelFamily issues CPUID(1): lines 66-70.
GetProcessorModelFamily_Cpuid ==
    /\ pc = "gpmf_cpuid"
    /\ \E eax \in Cpuid1Values : sig' = eax
    /\ pc' = "gpmf_decode"
    /\ UNCHANGED <<info, maxLevel, model, family, tscLocals, msrLocals, handles, loopLocals>>

\* GetProcessorModelFamily decodes into model and family: lines 72-92.
GetProcessorModelFamily_Decode ==
    /\ pc = "gpmf_decode"
    /\ family' = DecodeFamily(sig)
    /\ model' = DecodeModel(sig)
    /\ pc' = "gpmf_ret"
    /\ UNCHANGED <<info, maxLevel, sig, tscLocals, msrLocals, handles, loopLocals>>

\* GetProcessorModelFamily returns (its eax goes out of scope): line 93.
GetProcessorModelFamily_Return ==
    /\ pc = "gpmf_ret"
    /\ sig' = 0
    /\ pc' = "tier1"
    /\ UNCHANGED <<info, maxLevel, model, family, tscLocals, msrLocals, handles, loopLocals>>

\* GetTscHz, tier 1 skipped: lines 149-151 with maxLevel < 0x15.
GetTscHz_Tier1Skipped ==
    /\ pc = "tier1"
    /\ maxLevel < TscLeaf
    /\ tsc_hz' = U64(0)
    /\ tier1_hz' = <<tsc_hz'>>
    /\ pc' = "tier2"
    /\ UNCHANGED <<info, maxLevel, model, family, sig, cpuid15, crystal, mult, value,
                   msrLocals, handles, loopLocals>>

\* GetTscHz, tier 1: lines 149-184 with maxLevel >= 0x15. The division of
\* line 180 by a zero eax is undefined: it traps (SIGFPE on x86), or leaves
\* some value in tsc_hz.
GetTscHz_Tier1 ==
    /\ pc = "tier1"
    /\ maxLevel >= TscLeaf
    /\ \E r \in Cpuid15Values :
        /\ cpuid15' = r
        /\ crystal' = IF IsZero(r.ebx) THEN r.ecx ELSE ResolveCrystal(model, r.ecx)
        /\ IF ~Tier1Divides(model, r)
           THEN /\ tsc_hz' = U64(0)
                /\ tier1_hz' = <<tsc_hz'>>
                /\ pc' = "tier2"
           ELSE IF ~IsZero(r.eax)
           THEN /\ tsc_hz' = Tier1Quotient(crystal', r.ebx, r.eax)
                /\ tier1_hz' = <<tsc_hz'>>
                /\ pc' = "tier2"
           ELSE \/ /\ pc' = "sigfpe"
                   /\ UNCHANGED <<tsc_hz, tier1_hz>>
                \/ /\ \E g \in DivByZeroValues : tsc_hz' = g
                   /\ tier1_hz' = <<tsc_hz'>>
                   /\ pc' = "tier2"
    /\ UNCHANGED <<info, maxLevel, model, family, sig, mult, value,
                   msrLocals, handles, loopLocals>>

\* GetTscHz, the test of line 186 and the multiplier: lines 186-194.
GetTscHz_Tier2 ==
    /\ pc = "tier2"
    /\ IF Tier2Needed(tsc_hz)
       THEN /\ mult' = BusMultiplier(model)
            /\ value' = U64(0)
            /\ pc' = "msr_open"
       ELSE /\ pc' = "tsc_ret"
            /\ UNCHANGED <<mult, value>>
    /\ UNCHANGED <<info, maxLevel, model, family, sig, cpuid15, crystal, tsc_hz,
                   tier1_hz, msrLocals, handles, loopLocals>>

\* ReadMsr opens /dev/cpu/0/msr: lines 129-132.
ReadMsr_Open ==
    /\ pc = "msr_open"
    /\ opens' = opens + 1
    /\ ret' = FALSE
    /\ \E ok \in BOOLEAN :
        /\ fd' = IF ok THEN 3 ELSE -1
        /\ openHandles' = IF ok THEN openHandles + 1 ELSE openHandles
        /\ pc' = IF ok THEN "msr_pread" ELSE "msr_ret"
    /\ UNCHANGED <<info, maxLevel, model, family, sig, tscLocals, result, closes,
                   loopLocals>>

\* ReadMsr reads the register: lines 134-138.
ReadMsr_Pread ==
    /\ pc = "msr_pread"
    /\ \E o \in PreadOutcomes :
        /\ result' = o.result
        /\ value' = PreadInto(value, o.data, o.result)
        /\ ret' = (o.result = MsrValueSize)
        /\ pc' = AfterPread(o.result)
    /\ UNCHANGED <<info, maxLevel, model, family, sig, cpuid15, crystal, tsc_hz,
                   tier1_hz, mult, fd, handles, loopLocals>>

\* ReadMsr closes the descriptor: line 140.
ReadMsr_Close ==
    /\ pc = "msr_close"
    /\ closes' = closes + 1
    /\ openHandles' = openHandles - 1
    /\ pc' = "msr_ret"
    /\ UNCHANGED <<info, maxLevel, model, family, sig, tscLocals, msrLocals, opens,
                   loopLocals>>

\* ReadMsr returns and GetTscHz uses the value: lines 143, 195-201.
GetTscHz_Tier2Result ==
    /\ pc = "msr_ret"
    /\ tsc_hz' = IF ret /\ ~IsZero(value)
                 THEN RatioHz(RatioField(value), mult)
                 ELSE tsc_hz
    /\ pc' = "tsc_ret"
    /\ UNCHANGED <<info, maxLevel, model, family, sig, cpuid15, crystal, tier1_hz,
                   mult, value, msrLocals, handles, loopLocals>>

\* GetTscHz returns (its locals and ReadMsr's go out of scope) and
\* GetProcessorInfo fills info: lines 203, 242-250.
GetProcessorInfo_Return ==
    /\ pc = "tsc_ret"
    /\ info' = [maxLevel |-> maxLevel, model |-> model, family |-> family,
                tscHz |-> tsc_hz]
    /\ cpuid15' = NoRegisters
    /\ crystal' = U32(0)
    /\ tsc_hz' = U64(0)
    /\ mult' = 0
    /\ value' = U64(0)
    /\ fd' = 0
    /\ result' = 0
    /\ ret' = FALSE
    /\ pc' = "main_check"
    /\ UNCHANGED <<maxLevel, model, family, sig, tier1_hz, handles, loopLocals>>

\* main tests GetProcessorInfo's result: lines 258-265.
Main_Check ==
    /\ pc = "main_check"
    /\ pc' = IF GetProcessorInfoResult THEN "read_t1" ELSE "exit"
    /\ UNCHANGED <<info, maxLevel, model, family, sig, tscLocals, msrLocals, handles,
                   loopLocals>>

\* The loop body starts (t2 and duration of the last iteration are out of
\* scope) and reads the counter: lines 267-270.
Main_ReadT1 ==
    /\ pc = "read_t1"
    /\ \E t \in 0..MaxTsc : t1' = t
    /\ t2' = 0
    /\ duration' = NoDuration
    /\ pc' = "sleep"
    /\ UNCHANGED <<info, maxLevel, model, family, sig, tscLocals, msrLocals, handles>>

\* sleep_for(1000ms): line 271.
Main_Sleep ==
    /\ pc = "sleep"
    /\ pc' = "read_t2"
    /\ UNCHANGED <<info, maxLevel, model, family, sig, tscLocals, msrLocals, handles,
                   loopLocals>>

\* The second counter read, not below the first: lines 272-273.
Main_ReadT2 ==
    /\ pc = "read_t2"
    /\ \E t \in t1..MaxTsc : t2' = t
    /\ pc' = "duration"
    /\ UNCHANGED <<info, maxLevel, model, family, sig, tscLocals, msrLocals, handles,
                   t1, duration>>

\* diff and duration are computed and printed: lines 275-277.
Main_Duration ==
    /\ pc = "duration"
    /\ duration' = FloatDivide(t2 - t1, info.tscHz)
    /\ pc' = "printed"
    /\ UNCHANGED <<info, maxLevel, model, family, sig, tscLocals, msrLocals, handles,
                   t1, t2>>

\* The loop goes round: lines 267, 278.
Main_Loop ==
    /\ pc = "printed"
    /\ pc' = "read_t1"
    /\ UNCHANGED <<info, maxLevel, model, family, sig, tscLocals, msrLocals, handles,
                   loopLocals>>

Next ==
    \/ GetProcessorInfo_Cpuid0
    \/ GetProcessorModelFamily_Cpuid
    \/ GetProcessorModelFamily_Decode
    \/ GetProcessorModelFamily_Return
    \/ GetTscHz_Tier1Skipped
    \/ GetTscHz_Tier1
    \/ GetTscHz_Tier2
    \/ ReadMsr_Open
    \/ ReadMsr_Pread
    \/ ReadMsr_Close
    \/ GetTscHz_Tier2Result
    \/ GetProcessorInfo_Return
    \/ Main_Check
    \/ Main_ReadT1
    \/ Main_Sleep
    \/ Main_ReadT2
    \/ Main_Duration
    \/ Main_Loop

Spec == Init /\ [][Next]_vars

(***************************************************************************)
(* Properties.                                                             *)
(***************************************************************************)
InReadMsr == pc \in {"msr_pread", "msr_close"}
InLoop == pc \in {"read_t1", "sleep", "read_t2", "duration", "printed"}
AfterGetTscHz == pc = "main_check" \/ InLoop
\* Past ReadMsr's open, or past the test of line 186 when it skipped tier 2.
PastTier2Test == pc \in {"msr_pread", "msr_close", "msr_ret", "tsc_ret"} \/ AfterGetTscHz
Tier1Zero == tier1_hz = <<U64(0)>>
Tier1NonZero == Len(tier1_hz) = 1 /\ ~IsZero(tier1_hz[1])
\* CPUID(0x15) has been issued and its registers are in scope.
Cpuid15Read == pc \in {"tier2", "sigfpe"} /\ maxLevel >= TscLeaf
TableConsulted == Cpuid15Read /\ ~IsZero(cpuid15.ebx) /\ IsZero(cpuid15.ecx)
MultSelected == pc \in {"msr_open", "msr_pread", "msr_close", "msr_ret"}
                    \/ (pc = "tsc_ret" /\ opens = 1)
ThreeGHz == <<0, 94, 208, 178, 0, 0, 0, 0>>     \* 3,000,000,000 = 0xB2D05E00

\* C1: the MSR is opened if and only if tier 1 left tsc_hz at zero; when
\* tier 1 left a non-zero value no open is ever issued, GetTscHz returns
\* that value and it is the one stored in info.tscHz.
C1_TierOrder ==
    /\ opens <= 1
    /\ (opens > 0 \/ pc = "msr_open" \/ InReadMsr \/ pc = "msr_ret") => Tier1Zero
    /\ PastTier2Test => (opens = 1 <=> Tier1Zero)
    /\ (pc = "tsc_ret" /\ Tier1NonZero) => (tsc_hz = tier1_hz[1] /\ opens = 0)
    /\ (AfterGetTscHz /\ Tier1NonZero) => (info.tscHz = tier1_hz[1] /\ opens = 0)

C1_Witness ==
    /\ pc = "printed"
    /\ Tier1NonZero
    /\ info.tscHz = tier1_hz[1]
    /\ opens = 0

\* C2: with maxLevel >= 0x15, ebx # 0, a non-zero crystal frequency and
\* eax = 0, tier 1 does not divide: it yields zero and control is at tier 2.
C2_ZeroDenominatorFailsTier ==
    (Cpuid15Read /\ ~IsZero(cpuid15.ebx) /\ ~IsZero(crystal) /\ IsZero(cpuid15.eax))
        => (pc = "tier2" /\ IsZero(tsc_hz))

\* C3: when info.tscHz is zero the duration step reports "unavailable"
\* instead of the result of a division.
C3_ZeroFrequencyUnavailable ==
    (pc = "printed" /\ IsZero(info.tscHz)) => duration.kind = "unavailable"

\* q = floor(c * b / a) with the product taken in 64 bits.
IsFloorQuotient(q, c, b, a) ==
    LET p == Mul64(ZeroExtend(c), ZeroExtend(b))
        qa == Mul64(q, ZeroExtend(a))
    IN  /\ Geq64(p, qa)
        /\ ~Geq64(Sub64(p, qa), ZeroExtend(a))
        /\ (IsZero(q) \/ Div64(qa, q) = ZeroExtend(a))

\* C4: tier 1 yields floor(c * ebx / eax) in 64-bit arithmetic when
\* maxLevel >= 0x15 and ebx, c and eax are non-zero (24,000,000 * 100 / 2 =
\* 1,200,000,000); zero, without dividing, when ebx = 0; zero when
\* maxLevel < 0x15.
C4_Tier1Reference ==
    /\ pc = "sigfpe" => (~IsZero(cpuid15.ebx) /\ ~IsZero(crystal) /\ IsZero(cpuid15.eax))
    /\ (pc = "tier2" /\ maxLevel < TscLeaf) => IsZero(tsc_hz)
    /\ (pc = "tier2" /\ maxLevel >= TscLeaf /\ IsZero(cpuid15.ebx)) => IsZero(tsc_hz)
    /\ (pc = "tier2" /\ maxLevel >= TscLeaf /\ ~IsZero(cpuid15.ebx)
            /\ ~IsZero(crystal) /\ ~IsZero(cpuid15.eax))
        => /\ IsFloorQuotient(tsc_hz, crystal, cpuid15.ebx, cpuid15.eax)
           /\ (crystal = U32(24000000) /\ cpuid15.ebx = U32(100) /\ cpuid15.eax = U32(2))
                => tsc_hz = U64(1200000000)

\* The product exceeds 32 bits and the quotient is the reference value.
C4_Witness ==
    /\ pc = "tier2"
    /\ crystal = U32(24000000)
    /\ cpuid15.ebx = Max32
    /\ cpuid15.eax = U32(2)
    /\ tsc_hz = Mul64(U64(12000000), ZeroExtend(Max32))

TableModels == {m \in 0..255 : ~IsZero(CrystalTable(m))}

\* The crystal frequency the five listed model codes stand for.
ListedCrystal(m) ==
    IF m \in {78, 94} THEN U32(24000000)
    ELSE IF m = 95 THEN U32(25000000)
    ELSE IF m \in {92, 122} THEN U32(19200000)
    ELSE U32(0)

\* C5 as stated: with ebx # 0 and ecx = 0, exactly four model codes resolve
\* to a non-zero crystal frequency, one of 24 MHz, 25 MHz, 19.2 MHz.
C5_FourModelCodes ==
    TableConsulted =>
        /\ Cardinality(TableModels) = 4
        /\ crystal \in {U32(0), U32(24000000), U32(25000000), U32(19200000)}

\* C5 amended: exactly five model codes resolve (0x4E and 0x5E to 24 MHz,
\* 0x5F to 25 MHz, 0x5C and 0x7A to 19.2 MHz); every other model byte leaves
\* the crystal frequency, and so tier 1, at zero; a non-zero reported ecx is
\* used unchanged.
C5_FiveModelCodes ==
    /\ TableConsulted =>
        /\ Cardinality(TableModels) = 5
        /\ crystal = ListedCrystal(model)
        /\ IsZero(crystal) => (pc = "tier2" /\ IsZero(tsc_hz))
    /\ (Cpuid15Read /\ ~IsZero(cpuid15.ebx) /\ ~IsZero(cpuid15.ecx))
        => crystal = cpuid15.ecx

C5_Witness ==
    /\ TableConsulted
    /\ model = INTEL_FAM6_ATOM_GOLDMONT_PLUS
    /\ crystal = U32(19200000)

LegacyModels == {m \in 0..255 : BusMultiplier(m) = 133}

\* C6 as stated: exactly six model codes, three of each of two families,
\* select 133 and every other model byte selects 100.
C6_SixLegacyCodes ==
    MultSelected =>
        /\ Cardinality(LegacyModels) = 6
        /\ Cardinality({m \in 0..255 : IsModelWestmere(m)}) = 3
        /\ Cardinality({m \in 0..255 : IsModelNehalem(m)}) = 3
        /\ mult \in {100, 133}

\* C6 amended: exactly seven model codes select 133, the three Westmere
\* codes 0x25, 0x2C, 0x2F and the four Nehalem codes 0x1E, 0x1F, 0x1A, 0x2E;
\* every other model byte selects 100.
C6_SevenLegacyCodes ==
    MultSelected =>
        /\ Cardinality(LegacyModels) = 7
        /\ \A m \in 0..255 : BusMultiplier(m) \in {100, 133}
        /\ mult = IF model \in {37, 44, 47, 30, 31, 26, 46} THEN 133 ELSE 100

C6_Witness ==
    /\ pc = "msr_open"
    /\ model = INTEL_FAM6_NEHALEM_G
    /\ mult = 133

\* C7: when tier 2 ran, GetTscHz returns ratio * mult * 1,000,000, ratio
\* being bits 8-15 of the value, if the open succeeded, 8 bytes were read and
\* the value is non-zero (ratio 30, multiplier 100: 3,000,000,000); it
\* returns zero otherwise.
C7_Tier2Result ==
    (pc = "tsc_ret" /\ opens = 1) =>
        IF fd >= 0 /\ result = 8 /\ ~IsZero(value)
        THEN /\ Div64(tsc_hz, U64(1000000)) = U64(value[2] * mult)
             /\ Mul64(U64(value[2] * mult), U64(1000000)) = tsc_hz
             /\ (value[2] = 30 /\ mult = 100) => tsc_hz = ThreeGHz
        ELSE IsZero(tsc_hz)

C7_Witness ==
    /\ pc = "tsc_ret"
    /\ opens = 1
    /\ result = 8
    /\ value[2] = 30
    /\ mult = 100
    /\ tsc_hz = ThreeGHz

\* C8: every successful open is followed by exactly one close before ReadMsr
\* returns, a failed open by none, and no MSR descriptor is open outside
\* ReadMsr.
C8_NoHandleLeak ==
    /\ openHandles = IF InReadMsr THEN 1 ELSE 0
    /\ closes <= opens
    /\ pc = "msr_ret" => closes = (IF fd >= 0 THEN 1 ELSE 0)
    /\ pc = "msr_pread" => (fd >= 0 /\ closes = 0)
    /\ (pc = "tsc_ret" \/ AfterGetTscHz) => closes <= 1

\* A short read, closed all the same.
C8_Witness ==
    /\ pc = "msr_ret"
    /\ fd >= 0
    /\ result # 8
    /\ closes = 1
    /\ openHandles = 0

\* C9: the process has no terminal state: it neither exits nor is killed,
\* whatever identification and discovery return.
C9_NeverTerminates == pc \notin {"exit", "sigfpe"}

\* C10: the decoded family is base + extended family when the base family is
\* 0x0F and the base family otherwise; the decoded model is the base model
\* when the base family is below 6, and base model + (extended model << 4)
\* otherwise.
C10_FamilyModelDecoding ==
    pc = "gpmf_ret" =>
        /\ family = IF BaseFamily(sig) = 15
                    THEN BaseFamily(sig) + ExtFamily(sig)
                    ELSE BaseFamily(sig)
        /\ model = IF BaseFamily(sig) < 6
                   THEN BaseModel(sig)
                   ELSE BaseModel(sig) + 16 * ExtModel(sig)

====
